---- MODULE Spec2Model ----
(***************************************************************************)
(* Model of src/query.rs: the enumerated scalar codec (KeyAlgo,            *)
(* EntityStatus: from_str / to_str / to_sql / from_sql), the request       *)
(* context MyContext (new / get_connection / drop) and the query modifier  *)
(* hook modify_query.                                                      *)
(*                                                                         *)
(* Strings are sequences of one-character strings, bytes are integers, so  *)
(* that rendering, parsing and the text codec are computed and not assumed.*)
(***************************************************************************)
EXTENDS Integers, Sequences, FiniteSets, TLC

VARIABLES
    call,        \* the last codec call: [fn, ty, arg, ret, parsed]
    out,         \* serialize::Output: the bytes the last to_sql wrote
    written,     \* the variant the last to_sql was called on, or "none"
    idle,        \* the pool's idle connections (a queue)
    ctx,         \* ctx[r]: the MyContext of request r, or NoCtx
    phase,       \* phase[r]: where request r is
    given,       \* given[r]: the connection passed to MyContext::new for r
    exit,        \* exit[r]: the exit path on which r's context was dropped
    lastBorrow,  \* the last get_connection call: [r, ret]
    lastHook     \* the last modify_query call: [r, ty, select, query, ret]

codecVars == <<call, out, written>>
ctxVars == <<idle, ctx, phase, given, exit, lastBorrow, lastHook>>
vars == <<call, out, written, idle, ctx, phase, given, exit, lastBorrow, lastHook>>

----------------------------------------------------------------------------
(* Bounds *)

MaxLen == 3
NumRequests == 2
NumConns == 2

----------------------------------------------------------------------------
(* Text *)

Range(s) == {s[i] : i \in 1..Len(s)}

UC == <<"A", "B", "C", "D", "E", "F", "L", "N", "O", "R", "T", "U">>
LC == <<"a", "b", "c", "d", "e", "f", "l", "n", "o", "r", "t", "u">>
UCode == <<65, 66, 67, 68, 69, 70, 76, 78, 79, 82, 84, 85>>

Chars == Range(UC) \cup Range(LC) \cup {" "}

Idx(s, c) == CHOOSE i \in 1..Len(s) : s[i] = c

\* the byte of each (ASCII) character
Ascii ==
    [c \in Chars |->
        IF c = " " THEN 32
        ELSE IF c \in Range(UC) THEN UCode[Idx(UC, c)]
        ELSE UCode[Idx(LC, c)] + 32]

Ord(c) == Ascii[c]

ValidBytes == {Ascii[c] : c \in Chars}

\* the character of each valid byte
Unascii == [b \in ValidBytes |-> CHOOSE c \in Chars : Ascii[c] = b]

Chr(b) == Unascii[b]

\* str::as_bytes
Encode(s) == [i \in 1..Len(s) |-> Ord(s[i])]

\* String::from_utf8 on valid bytes
Decode(b) == [i \in 1..Len(b) |-> Chr(b[i])]

LowerChar(c) == IF c \in Range(UC) THEN LC[Idx(UC, c)] ELSE c
UpperChar(c) == IF c \in Range(LC) THEN UC[Idx(LC, c)] ELSE c

\* str::to_ascii_lowercase / to_ascii_uppercase
ToLower(s) == [i \in 1..Len(s) |-> LowerChar(s[i])]
ToUpper(s) == [i \in 1..Len(s) |-> UpperChar(s[i])]

\* first character kept, the rest lowercased: a mixed-case form
Capitalize(s) == [i \in 1..Len(s) |-> IF i = 1 THEN s[i] ELSE LowerChar(s[i])]

RECURSIVE TrimStart(_)
TrimStart(s) ==
    IF s # <<>> /\ Head(s) = " " THEN TrimStart(Tail(s)) ELSE s

RECURSIVE TrimEnd(_)
TrimEnd(s) ==
    IF s # <<>> /\ s[Len(s)] = " " THEN TrimEnd(SubSeq(s, 1, Len(s) - 1)) ELSE s

\* str::trim
Trim(s) == TrimEnd(TrimStart(s))

S_FOO == <<"F", "O", "O">>
S_BAR == <<"B", "A", "R">>
S_OLD == <<"O", "L", "D">>
S_CURRENT == <<"C", "U", "R", "R", "E", "N", "T">>
S_DRAFT == <<"D", "R", "A", "F", "T">>

----------------------------------------------------------------------------
(* Results *)

Some(v) == [tag |-> "Some", val |-> v]
None == [tag |-> "None", val |-> "-"]
Ok(v) == [tag |-> "Ok", val |-> v]
Err(e) == [tag |-> "Err", val |-> e]
Panic == [tag |-> "Panic", val |-> "unreachable"]

----------------------------------------------------------------------------
(* enum KeyAlgo *)

KeyAlgo == {"KeyAlgo::FOO", "KeyAlgo::BAR"}

\* FOO and BAR arms swapped
KeyAlgo_from_str_swapped(text) ==
    CASE text = S_FOO -> Some("KeyAlgo::BAR")
      [] text = S_BAR -> Some("KeyAlgo::FOO")
      [] OTHER -> None

KeyAlgo_from_str(text) ==
    CASE text = S_FOO -> Some("KeyAlgo::FOO")
      [] text = S_BAR -> Some("KeyAlgo::BAR")
      [] OTHER -> None

KeyAlgo_to_str(self) ==
    CASE self = "KeyAlgo::FOO" -> S_FOO
      [] self = "KeyAlgo::BAR" -> S_BAR

(* enum EntityStatus *)

EntityStatus == {"EntityStatus::OLD", "EntityStatus::CURRENT", "EntityStatus::DRAFT"}

\* matching after trimming and ignoring ASCII case
EntityStatus_from_str_lenient(text) ==
    LET t == ToUpper(Trim(text)) IN
    CASE t = S_OLD -> Some("EntityStatus::OLD")
      [] t = S_CURRENT -> Some("EntityStatus::CURRENT")
      [] t = S_DRAFT -> Some("EntityStatus::DRAFT")
      [] OTHER -> None

EntityStatus_from_str(text) ==
    CASE text = S_OLD -> Some("EntityStatus::OLD")
      [] text = S_CURRENT -> Some("EntityStatus::CURRENT")
      [] text = S_DRAFT -> Some("EntityStatus::DRAFT")
      [] OTHER -> None

\* DRAFT rendered with OLD's name
EntityStatus_to_str_dup(self) ==
    CASE self = "EntityStatus::OLD" -> S_OLD
      [] self = "EntityStatus::CURRENT" -> S_CURRENT
      [] self = "EntityStatus::DRAFT" -> S_OLD

EntityStatus_to_str(self) ==
    CASE self = "EntityStatus::OLD" -> S_OLD
      [] self = "EntityStatus::CURRENT" -> S_CURRENT
      [] self = "EntityStatus::DRAFT" -> S_DRAFT

----------------------------------------------------------------------------
(* The text codec the enum codec builds on *)

\* Option<&DB::RawValue>
NULL == [some |-> FALSE, bytes |-> <<>>]
SomeRaw(b) == [some |-> TRUE, bytes |-> b]

\* <String as ToSql<Text, DB>>::to_sql: writes the string's bytes
String_to_sql(s) == Encode(s)

\* <String as FromSql<Text, DB>>::from_sql
String_from_sql(bytes) ==
    IF ~bytes.some THEN Err("UnexpectedNull")
    ELSE IF Range(bytes.bytes) \subseteq ValidBytes THEN Ok(Decode(bytes.bytes))
    ELSE Err("InvalidUtf8")

\* the lowercased name handed to the text codec
KeyAlgo_to_sql_lower(self) == String_to_sql(ToLower(KeyAlgo_to_str(self)))

\* to_sql: self.to_str().to_owned().to_sql(out)
KeyAlgo_to_sql(self) == String_to_sql(KeyAlgo_to_str(self))

EntityStatus_to_sql(self) == String_to_sql(EntityStatus_to_str(self))

\* the text codec's error replaced by the empty string (unwrap_or_default)
KeyAlgo_from_sql_defaulting(bytes) ==
    LET value == String_from_sql(bytes)
        text == IF value.tag = "Err" THEN <<>> ELSE value.val
        m == KeyAlgo_from_str(text) IN
    IF m.tag = "Some" THEN [ret |-> Ok(m.val), parsed |-> TRUE]
    ELSE [ret |-> Panic, parsed |-> TRUE]

\* from_sql: the result, and whether from_str was reached
KeyAlgo_from_sql(bytes) ==
    LET value == String_from_sql(bytes) IN
    IF value.tag = "Err" THEN [ret |-> value, parsed |-> FALSE]
    ELSE LET m == KeyAlgo_from_str(value.val) IN
         IF m.tag = "Some" THEN [ret |-> Ok(m.val), parsed |-> TRUE]
         ELSE [ret |-> Panic, parsed |-> TRUE]

EntityStatus_from_sql(bytes) ==
    LET value == String_from_sql(bytes) IN
    IF value.tag = "Err" THEN [ret |-> value, parsed |-> FALSE]
    ELSE LET m == EntityStatus_from_str(value.val) IN
         IF m.tag = "Some" THEN [ret |-> Ok(m.val), parsed |-> TRUE]
         ELSE [ret |-> Panic, parsed |-> TRUE]

----------------------------------------------------------------------------
(* Inputs *)

Canon == {S_FOO, S_BAR, S_OLD, S_CURRENT, S_DRAFT}

SmallAlphabet == {"F", "O", " "}

ShortTexts == UNION {[1..n -> SmallAlphabet] : n \in 0..MaxLen}

Texts ==
    Canon
    \cup {ToLower(s) : s \in Canon}
    \cup {Capitalize(s) : s \in Canon}
    \cup {<<" ">> \o s : s \in Canon}
    \cup {s \o <<" ">> : s \in Canon}
    \cup ShortTexts

Raws ==
    {NULL}
    \cup {SomeRaw(Encode(t)) : t \in Texts}
    \cup {SomeRaw(<<255>>), SomeRaw(Encode(S_FOO) \o <<255>>)}

NoCall == [fn |-> "none", ty |-> "none", arg |-> "-", ret |-> "-", parsed |-> FALSE]

----------------------------------------------------------------------------
(* Codec operations *)

CallKeyAlgoFromStr ==
    /\ \E text \in Texts :
          call' = [fn |-> "from_str", ty |-> "KeyAlgo", arg |-> text,
                   ret |-> KeyAlgo_from_str(text), parsed |-> FALSE]
    /\ UNCHANGED <<out, written>>
    /\ UNCHANGED ctxVars

CallEntityStatusFromStr ==
    /\ \E text \in Texts :
          call' = [fn |-> "from_str", ty |-> "EntityStatus", arg |-> text,
                   ret |-> EntityStatus_from_str(text), parsed |-> FALSE]
    /\ UNCHANGED <<out, written>>
    /\ UNCHANGED ctxVars

CallKeyAlgoToStr ==
    /\ \E v \in KeyAlgo :
          call' = [fn |-> "to_str", ty |-> "KeyAlgo", arg |-> v,
                   ret |-> KeyAlgo_to_str(v), parsed |-> FALSE]
    /\ UNCHANGED <<out, written>>
    /\ UNCHANGED ctxVars

CallEntityStatusToStr ==
    /\ \E v \in EntityStatus :
          call' = [fn |-> "to_str", ty |-> "EntityStatus", arg |-> v,
                   ret |-> EntityStatus_to_str(v), parsed |-> FALSE]
    /\ UNCHANGED <<out, written>>
    /\ UNCHANGED ctxVars

CallKeyAlgoToSql ==
    /\ \E v \in KeyAlgo :
          /\ out' = KeyAlgo_to_sql(v)
          /\ written' = v
          /\ call' = [fn |-> "to_sql", ty |-> "KeyAlgo", arg |-> v,
                      ret |-> Ok("IsNull::No"), parsed |-> FALSE]
    /\ UNCHANGED ctxVars

CallEntityStatusToSql ==
    /\ \E v \in EntityStatus :
          /\ out' = EntityStatus_to_sql(v)
          /\ written' = v
          /\ call' = [fn |-> "to_sql", ty |-> "EntityStatus", arg |-> v,
                      ret |-> Ok("IsNull::No"), parsed |-> FALSE]
    /\ UNCHANGED ctxVars

\* the raw value read is what storage holds: what to_sql wrote, or anything
\* another writer put there
CallKeyAlgoFromSql ==
    /\ \E bytes \in Raws \cup {SomeRaw(out)} :
          LET r == KeyAlgo_from_sql(bytes) IN
          call' = [fn |-> "from_sql", ty |-> "KeyAlgo", arg |-> bytes,
                   ret |-> r.ret, parsed |-> r.parsed]
    /\ UNCHANGED <<out, written>>
    /\ UNCHANGED ctxVars

CallEntityStatusFromSql ==
    /\ \E bytes \in Raws \cup {SomeRaw(out)} :
          LET r == EntityStatus_from_sql(bytes) IN
          call' = [fn |-> "from_sql", ty |-> "EntityStatus", arg |-> bytes,
                   ret |-> r.ret, parsed |-> r.parsed]
    /\ UNCHANGED <<out, written>>
    /\ UNCHANGED ctxVars

----------------------------------------------------------------------------
(* Request context and query modifier hook *)

Conns == 1..NumConns
Requests == 1..NumRequests

\* T::TYPE_NAME of the entity types of the query object
EntityTypes == {"Entity", "Key", "Device", "Signature", "Certifier"}

\* the field selections a caller may pass (LookAheadSelection)
Selections == {{"key"}, {"key", "data"}}

\* the predicates a base query may already carry
Filters == {"filter"}

\* BoxedQuery<'a, T, DB, Self>
Queries(T) == [type : {T}, preds : SUBSET Filters]

NoCtx == [conn |-> 0]
NoBorrow == [r |-> 0, ret |-> 0]
NoHook == [r |-> 0, ty |-> "none", select |-> {}, query |-> [type |-> "none", preds |-> {}],
           ret |-> Ok([type |-> "none", preds |-> {}])]

Min(S) == CHOOSE x \in S : \A y \in S : x <= y

\* number of times c is in the queue q
Occ(q, c) == Cardinality({i \in 1..Len(q) : q[i] = c})

\* the context built on one process-wide connection
MyContext_new_shared(conn) == [conn |-> Min(Conns)]

\* MyContext::new: the connection is moved into the context
MyContext_new(conn) == [conn |-> conn]

\* a connection other than the context's own
get_connection_other(self) ==
    IF \E c \in Conns : c # self.conn THEN CHOOSE c \in Conns : c # self.conn
    ELSE self.conn

\* get_connection: &self.conn
get_connection(self) == self.conn

\* an arm that rejects one entity type
modify_query_deny(self, T, select, query) ==
    IF T = "Signature" THEN Err("access denied") ELSE Ok(query)

\* modify_query: match T::TYPE_NAME { _ => Ok(query) }; the wildcard is the
\* only arm, so every type name takes it
modify_query(self, T, select, query) == Ok(query)

\* the connection leaked (never handed back)
drop_MyContext_leak(self, pool) == pool

\* dropping a MyContext drops its only field, the PooledConnection, which
\* puts the connection back among the pool's idle connections
drop_MyContext(self, pool) == Append(pool, self.conn)

\* the exit path a context in this phase is dropped on
ExitPath(p) ==
    CASE p = "loaded" -> "completed"
      [] p = "failed" -> "failed"
      [] p = "unwinding" -> "panicked"
      [] OTHER -> "abandoned"

Running == {"active", "loaded"}
Live == {"active", "loaded", "failed", "unwinding"}

\* a request starts: a connection is checked out of the pool and moved into
\* a new context
NewContext(r) ==
    /\ phase[r] = "waiting"
    /\ idle # <<>>
    /\ LET conn == Head(idle) IN
          /\ idle' = Tail(idle)
          /\ ctx' = [ctx EXCEPT ![r] = MyContext_new(conn)]
          /\ given' = [given EXCEPT ![r] = conn]
    /\ phase' = [phase EXCEPT ![r] = "active"]
    /\ UNCHANGED <<exit, lastBorrow, lastHook>>
    /\ UNCHANGED codecVars

GetConnection(r) ==
    /\ phase[r] \in Running
    /\ lastBorrow' = [r |-> r, ret |-> get_connection(ctx[r])]
    /\ UNCHANGED <<idle, ctx, phase, given, exit, lastHook>>
    /\ UNCHANGED codecVars

ModifyQuery(r) ==
    /\ phase[r] \in Running
    /\ \E T \in EntityTypes, select \in Selections :
          \E query \in Queries(T) :
             lastHook' = [r |-> r, ty |-> T, select |-> select, query |-> query,
                          ret |-> modify_query(ctx[r], T, select, query)]
    /\ UNCHANGED <<idle, ctx, phase, given, exit, lastBorrow>>
    /\ UNCHANGED codecVars

\* what decoding the enum column of a row of keys (algo) or of entities
\* (status) can give
LoadResults ==
    {KeyAlgo_from_sql(bytes).ret : bytes \in Raws}
    \cup {EntityStatus_from_sql(bytes).ret : bytes \in Raws}

\* a row of keys or of entities is decoded
Load(r) ==
    /\ phase[r] \in Running
    /\ \E res \in LoadResults :
          phase' = [phase EXCEPT ![r] =
                       CASE res.tag = "Ok" -> "loaded"
                         [] res.tag = "Err" -> "failed"
                         [] OTHER -> "unwinding"]
    /\ UNCHANGED <<idle, ctx, given, exit, lastBorrow, lastHook>>
    /\ UNCHANGED codecVars

\* the context goes out of scope, on whatever path the request leaves
Drop(r) ==
    /\ phase[r] \in Live
    /\ idle' = drop_MyContext(ctx[r], idle)
    /\ ctx' = [ctx EXCEPT ![r] = NoCtx]
    /\ exit' = [exit EXCEPT ![r] = ExitPath(phase[r])]
    /\ phase' = [phase EXCEPT ![r] = "ended"]
    /\ lastBorrow' = IF lastBorrow.r = r THEN NoBorrow ELSE lastBorrow
    /\ UNCHANGED <<given, lastHook>>
    /\ UNCHANGED codecVars

\* the next request takes the slot
Recycle(r) ==
    /\ phase[r] = "ended"
    /\ phase' = [phase EXCEPT ![r] = "waiting"]
    /\ given' = [given EXCEPT ![r] = 0]
    /\ exit' = [exit EXCEPT ![r] = "none"]
    /\ UNCHANGED <<idle, ctx, lastBorrow, lastHook>>
    /\ UNCHANGED codecVars

----------------------------------------------------------------------------
(* Specifications *)

Init ==
    /\ call = NoCall
    /\ out = <<>>
    /\ written = "none"
    /\ idle = [i \in 1..NumConns |-> i]
    /\ ctx = [r \in Requests |-> NoCtx]
    /\ phase = [r \in Requests |-> "waiting"]
    /\ given = [r \in Requests |-> 0]
    /\ exit = [r \in Requests |-> "none"]
    /\ lastBorrow = NoBorrow
    /\ lastHook = NoHook

Next ==
    \/ \E r \in Requests : NewContext(r)
    \/ \E r \in Requests : GetConnection(r)
    \/ \E r \in Requests : ModifyQuery(r)
    \/ \E r \in Requests : Load(r)
    \/ \E r \in Requests : Drop(r)
    \/ \E r \in Requests : Recycle(r)

Spec == Init /\ [][Next]_vars

NextCodec ==
    \/ CallKeyAlgoFromStr
    \/ CallKeyAlgoToStr
    \/ CallKeyAlgoToSql
    \/ CallKeyAlgoFromSql
    \/ CallEntityStatusFromStr
    \/ CallEntityStatusToStr
    \/ CallEntityStatusToSql
    \/ CallEntityStatusFromSql

SpecCodec == Init /\ [][NextCodec]_vars

----------------------------------------------------------------------------
(* Properties *)

Variants(ty) == IF ty = "KeyAlgo" THEN KeyAlgo ELSE EntityStatus

to_str(ty, v) == IF ty = "KeyAlgo" THEN KeyAlgo_to_str(v) ELSE EntityStatus_to_str(v)

from_str(ty, text) ==
    IF ty = "KeyAlgo" THEN KeyAlgo_from_str(text) ELSE EntityStatus_from_str(text)

TypeOf(v) == IF v \in KeyAlgo THEN "KeyAlgo" ELSE "EntityStatus"

\* C1: parsing the rendered name of a variant gives back that variant:
\* whenever from_str was called on to_str(v), it returned Some(v)
C1_RoundTrip ==
    call.fn = "from_str" =>
        \A v \in Variants(call.ty) :
            call.arg = to_str(call.ty, v) => call.ret = Some(v)

C1_Witness ==
    /\ call.fn = "from_str"
    /\ call.ty = "KeyAlgo"
    /\ call.arg = KeyAlgo_to_str("KeyAlgo::FOO")
    /\ call.ret = Some("KeyAlgo::FOO")

\* C2: from_str returns None for every string that is not exactly one of
\* its own type's canonical names (other case, padded, empty, or a name of
\* the other enum)
C2_RejectsNonCanonical ==
    call.fn = "from_str" =>
        (call.arg \notin {to_str(call.ty, v) : v \in Variants(call.ty)}
            => call.ret = None)

C2_Witness ==
    /\ call.fn = "from_str"
    /\ call.ty = "EntityStatus"
    /\ call.arg = <<" ">> \o S_DRAFT
    /\ call.ret = None

\* C3: from_sql on text outside the closed variant set returns an Err; it
\* does not abort
C3_DecodeFailureIsErr ==
    (/\ call.fn = "from_sql"
     /\ String_from_sql(call.arg).tag = "Ok"
     /\ from_str(call.ty, String_from_sql(call.arg).val) = None)
        => call.ret.tag = "Err"

\* C4: modify_query returns Ok(query) with the query it was given, for every
\* entity type, selection and base query, and never an error
C4_AllowByDefault ==
    lastHook.r # 0 =>
        /\ lastHook.ret.tag = "Ok"
        /\ lastHook.ret.val = lastHook.query

C4_Witness ==
    /\ lastHook.r # 0
    /\ lastHook.ty = "Signature"
    /\ lastHook.query = [type |-> "Signature", preds |-> {"filter"}]
    /\ lastHook.ret = Ok(lastHook.query)

HasCtx(r) == ctx[r] # NoCtx

\* C5: two live contexts never hold the same connection, a borrow never
\* shows another context's connection, and dropping one context leaves every
\* other context with its connection, still checked out
C5_Isolation ==
    [][/\ \A a, b \in Requests :
             (a # b /\ ctx'[a] # NoCtx /\ ctx'[b] # NoCtx)
                => ctx'[a].conn # ctx'[b].conn
       /\ \A a \in Requests :
             (lastBorrow'.r # 0 /\ a # lastBorrow'.r /\ ctx'[a] # NoCtx)
                => lastBorrow'.ret # ctx'[a].conn
       /\ \A a, b \in Requests :
             (a # b /\ HasCtx(a) /\ ctx'[a] = NoCtx /\ HasCtx(b))
                => /\ ctx'[b] = ctx[b]
                   /\ phase'[b] = phase[b]
                   /\ Occ(idle', ctx[b].conn) = 0]_vars

C5_Witness ==
    \E a, b \in Requests :
        /\ a # b
        /\ phase[a] = "ended"
        /\ phase[b] \in Running
        /\ ctx[b].conn = given[b]
        /\ lastBorrow = [r |-> b, ret |-> given[b]]
        /\ Occ(idle, given[a]) = 1

\* C6: a connection is idle in the pool at most once, a connection that is
\* not idle is held by the context of a request that has not ended, and a
\* request that has ended holds nothing, whatever path it ended on
C6_Released ==
    /\ \A c \in Conns : Occ(idle, c) <= 1
    /\ \A c \in Conns :
          Occ(idle, c) = 0 =>
              \E r \in Requests : phase[r] \in Live /\ ctx[r].conn = c
    /\ \A r \in Requests :
          phase[r] = "ended" => (ctx[r] = NoCtx /\ exit[r] # "none")

C6_Witness ==
    \E a, b \in Requests :
        /\ phase[a] = "ended" /\ exit[a] = "panicked"
        /\ phase[b] = "ended" /\ exit[b] = "abandoned"
        /\ \A c \in Conns : Occ(idle, c) = 1

\* C7: get_connection returns the connection given to MyContext::new; a
\* context keeps that connection as long as it lives; get_connection and
\* modify_query change neither any context nor the pool
C7_BorrowOnly ==
    [][/\ lastBorrow'.r # 0 => lastBorrow'.ret = given'[lastBorrow'.r]
       /\ \A r \in Requests : ctx'[r] # NoCtx => ctx'[r].conn = given'[r]
       /\ \A r \in Requests : (HasCtx(r) /\ ctx'[r] # NoCtx) => ctx'[r] = ctx[r]
       /\ ((lastBorrow' # lastBorrow /\ lastBorrow'.r # 0) \/ lastHook' # lastHook)
             => (ctx' = ctx /\ idle' = idle /\ given' = given)]_vars

C7_Witness ==
    \E r \in Requests :
        /\ lastBorrow = [r |-> r, ret |-> given[r]]
        /\ lastHook.r = r
        /\ ctx[r].conn = given[r]
        /\ given[r] = 2

\* C8: to_sql writes the bytes of the canonical name, and from_sql on what
\* to_sql wrote returns Ok of the variant written
C8_SqlRoundTrip ==
    written # "none" =>
        /\ out = String_to_sql(to_str(TypeOf(written), written))
        /\ (/\ call.fn = "from_sql"
            /\ call.ty = TypeOf(written)
            /\ call.arg = SomeRaw(out))
              => call.ret = Ok(written)

C8_Witness ==
    /\ written = "EntityStatus::CURRENT"
    /\ call.fn = "from_sql"
    /\ call.ty = "EntityStatus"
    /\ call.arg = SomeRaw(out)
    /\ call.ret = Ok("EntityStatus::CURRENT")

\* C9: within an enum type no other variant renders to the string that
\* to_str returned
C9_Injective ==
    call.fn = "to_str" =>
        \A v \in Variants(call.ty) \ {call.arg} : to_str(call.ty, v) # call.ret

C9_Witness ==
    /\ call.fn = "to_str"
    /\ call.arg = "EntityStatus::DRAFT"
    /\ call.ret = S_DRAFT

\* C10: when the text codec fails, from_sql returns that error and does not
\* reach from_str; from_sql returns Ok only of a variant that the decoded
\* text parses to
C10_TextErrorPropagates ==
    call.fn = "from_sql" =>
        LET text == String_from_sql(call.arg) IN
        /\ text.tag = "Err" => (call.ret = text /\ ~call.parsed)
        /\ call.ret.tag = "Ok" =>
              (text.tag = "Ok" /\ from_str(call.ty, text.val) = Some(call.ret.val))

C10_Witness ==
    /\ call.fn = "from_sql"
    /\ call.ty = "KeyAlgo"
    /\ call.arg = NULL
    /\ call.ret = Err("UnexpectedNull")
    /\ ~call.parsed

====
